---- MODULE Spec2Model ----
(***************************************************************************)
(* Model of the service-calendar resolution core of                        *)
(* scripts/gtfs_json_builder.py: calendar activation, the change-point     *)
(* window scanner, the route-aware grouper, the winner resolver and the    *)
(* pruning orchestrator.                                                   *)
(*                                                                         *)
(* Representation.  Python strings that the code orders (service ids,      *)
(* route ids, trip ids) are sequences of code points, so sorted(), max()   *)
(* and int() are computed and not assumed.  A YYYYMMDD field is the        *)
(* natural number its eight digits spell, and 0 stands for the empty       *)
(* string.  A datetime.date is its proleptic Gregorian ordinal             *)
(* (date.toordinal()), and None, where a date is expected, is NoDate.      *)
(***************************************************************************)
EXTENDS Integers, Sequences, FiniteSets, TLC

VARIABLES calendar_rows, calendar_dates, trips, stop_times, feed_info,
          today, window_days, overlap_max_days, services, pivot_date, D,
          pc, ret

vars == <<calendar_rows, calendar_dates, trips, stop_times, feed_info,
          today, window_days, overlap_max_days, services, pivot_date, D,
          pc, ret>>

(***************************************************************************)
(* Bounds of the model                                                     *)
(***************************************************************************)
MaxDays == 4

MaxExc == 2

MaxTrips == 2

(***************************************************************************)
(* Strings as sequences of code points                                     *)
(***************************************************************************)
\* Python's str.__lt__: lexicographic by code point, a proper prefix is less.
RECURSIVE StrLess(_, _)
StrLess(a, b) ==
    IF b = << >> THEN FALSE
    ELSE IF a = << >> THEN TRUE
    ELSE IF Head(a) # Head(b) THEN Head(a) < Head(b)
    ELSE StrLess(Tail(a), Tail(b))

\* int(s) succeeds: modelled for ids made of ASCII digits only.
IsDigits(s) == s # << >> /\ \A i \in 1..Len(s) : s[i] \in 48..57

RECURSIVE IntOf(_)
IntOf(s) ==
    IF s = << >> THEN 0
    ELSE 10 * IntOf(SubSeq(s, 1, Len(s) - 1)) + (s[Len(s)] - 48)

\* sorted(S) for a set of strings.
RECURSIVE SortedStrs(_)
SortedStrs(S) ==
    IF S = {} THEN << >>
    ELSE LET m == CHOOSE x \in S : \A y \in S \ {x} : StrLess(x, y)
         IN  <<m>> \o SortedStrs(S \ {m})

Range(s) == {s[i] : i \in 1..Len(s)}

UNKNOWN_ROUTE_ID == <<60, 117, 110, 107, 110, 111, 119, 110, 45, 114, 111, 117, 116, 101, 62>>

\* Python's None where a string is expected (a winner): no string has code 0.
None == <<0>>

(***************************************************************************)
(* datetime.date                                                           *)
(***************************************************************************)
NoDate == 0

IsLeap(y) == y % 4 = 0 /\ (y % 100 # 0 \/ y % 400 = 0)

DaysInMonth(y, m) ==
    IF m = 2 THEN (IF IsLeap(y) THEN 29 ELSE 28)
    ELSE IF m \in {4, 6, 9, 11} THEN 30 ELSE 31

RECURSIVE DaysBeforeMonth(_, _)
DaysBeforeMonth(y, m) ==
    IF m <= 1 THEN 0 ELSE DaysBeforeMonth(y, m - 1) + DaysInMonth(y, m - 1)

DaysBeforeYear(y) ==
    (y - 1) * 365 + (y - 1) \div 4 - (y - 1) \div 100 + (y - 1) \div 400

\* date(y, m, d).toordinal()
Ymd2Ord(y, m, d) == DaysBeforeYear(y) + DaysBeforeMonth(y, m) + d

RECURSIVE YearOfFrom(_, _)
YearOfFrom(n, y) == IF DaysBeforeYear(y) < n THEN y ELSE YearOfFrom(n, y - 1)

YearOf(n) == YearOfFrom(n, (n - 1) \div 365 + 1)

RECURSIVE MonthOfFrom(_, _, _)
MonthOfFrom(n, y, m) ==
    IF DaysBeforeYear(y) + DaysBeforeMonth(y, m) < n THEN m
    ELSE MonthOfFrom(n, y, m - 1)

MonthOf(n) == MonthOfFrom(n, YearOf(n), 12)

DayOf(n) == n - DaysBeforeYear(YearOf(n)) - DaysBeforeMonth(YearOf(n), MonthOf(n))

\* Mutant of Weekday: Sunday-first numbering.
Weekday_SundayFirst(n) == n % 7

\* date.weekday(): Monday = 0 ... Sunday = 6
Weekday(n) == (n + 6) % 7

\* _yyyymmdd_to_date: None unless 8 characters spelling a real date.
yyyymmdd_to_date(s) ==
    IF s < 10000000 \/ s > 99999999 THEN NoDate
    ELSE LET y == s \div 10000
             m == (s \div 100) % 100
             d == s % 100
         IN  IF y >= 1 /\ m \in 1..12 /\ d >= 1 /\ d <= DaysInMonth(y, m)
             THEN Ymd2Ord(y, m, d)
             ELSE NoDate

\* _date_to_yyyymmdd: f"{d:%Y%m%d}"
date_to_yyyymmdd(n) == YearOf(n) * 10000 + MonthOf(n) * 100 + DayOf(n)

parse_ymd(s) == yyyymmdd_to_date(s)

(***************************************************************************)
(* Calendar activation                                                     *)
(***************************************************************************)
weekday_mask(row) ==
    << row.monday = "1", row.tuesday = "1", row.wednesday = "1",
       row.thursday = "1", row.friday = "1", row.saturday = "1",
       row.sunday = "1" >>

\* The second loop of _active_services_on: exceptions dated key, in row order.
RECURSIVE ApplyExceptionsOn(_, _, _)
ApplyExceptionsOn(active, key, rows) ==
    IF rows = << >> THEN active
    ELSE LET exc == Head(rows)
             nxt == IF exc.date = key
                    THEN IF exc.exception_type = "1" THEN active \cup {exc.service_id}
                         ELSE IF exc.exception_type = "2" THEN active \ {exc.service_id}
                         ELSE active
                    ELSE active
         IN  ApplyExceptionsOn(nxt, key, Tail(rows))

WeeklyActiveOn(d, rows) ==
    { rows[i].service_id : i \in
        { j \in 1..Len(rows) :
            LET start == yyyymmdd_to_date(rows[j].start_date)
                end   == yyyymmdd_to_date(rows[j].end_date)
            IN  /\ start # NoDate /\ end # NoDate
                /\ start <= d /\ d <= end
                /\ weekday_mask(rows[j])[Weekday(d) + 1] } }

active_services_on(d, rows, exc_rows) ==
    ApplyExceptionsOn(WeeklyActiveOn(d, rows), date_to_yyyymmdd(d), exc_rows)

(***************************************************************************)
(* Change-point window scanner                                             *)
(***************************************************************************)
\* sep.join(s)
RECURSIVE Join(_, _)
Join(sep, s) ==
    IF s = << >> THEN << >>
    ELSE IF Len(s) = 1 THEN Head(s)
    ELSE Head(s) \o sep \o Join(sep, Tail(s))

\* "|".join(sorted(sids))
JoinBar(s) == Join(<<124>>, s)

\* Stand-in for int(sha1(payload).hexdigest()[:8], 16): a deterministic digest
\* of the payload bytes (16 bits wide, so that the arithmetic stays in range).
\* The scanner only compares digests for equality.
RECURSIVE Digest(_)
Digest(p) ==
    IF p = << >> THEN 7
    ELSE (31 * Digest(SubSeq(p, 1, Len(p) - 1)) + p[Len(p)]) % 65536

sig(sids) ==
    IF sids = {} THEN <<0, 0>>
    ELSE <<Cardinality(sids), Digest(JoinBar(SortedStrs(sids)))>>

\* Mutant of ScanWindows: a window is closed on the day of the change, not the day before.
RECURSIVE ScanWindows_CloseOnChangeDay(_, _, _, _, _, _, _, _)
ScanWindows_CloseOnChangeDay(i, start, n, cal, cd, cur_from, cur_sig, wins) ==
    IF i > n THEN Append(wins, <<cur_from, start + n>>)
    ELSE LET d  == start + i
             sg == sig(active_services_on(d, cal, cd))
         IN  IF sg # cur_sig
             THEN ScanWindows_CloseOnChangeDay(i + 1, start, n, cal, cd, d, sg,
                                               Append(wins, <<cur_from, d>>))
             ELSE ScanWindows_CloseOnChangeDay(i + 1, start, n, cal, cd, cur_from, cur_sig, wins)

\* Mutant of ScanWindows: cur_sig is not updated when a new window opens.
RECURSIVE ScanWindows_StaleSig(_, _, _, _, _, _, _, _)
ScanWindows_StaleSig(i, start, n, cal, cd, cur_from, cur_sig, wins) ==
    IF i > n THEN Append(wins, <<cur_from, start + n>>)
    ELSE LET d  == start + i
             sg == sig(active_services_on(d, cal, cd))
         IN  IF sg # cur_sig
             THEN ScanWindows_StaleSig(i + 1, start, n, cal, cd, d, cur_sig,
                                       Append(wins, <<cur_from, d - 1>>))
             ELSE ScanWindows_StaleSig(i + 1, start, n, cal, cd, cur_from, cur_sig, wins)

\* The loop of _effective_windows from day offset i on.
RECURSIVE ScanWindows(_, _, _, _, _, _, _, _)
ScanWindows(i, start, n, cal, cd, cur_from, cur_sig, wins) ==
    IF i > n THEN Append(wins, <<cur_from, start + n>>)
    ELSE LET d  == start + i
             sg == sig(active_services_on(d, cal, cd))
         IN  IF sg # cur_sig
             THEN ScanWindows(i + 1, start, n, cal, cd, d, sg,
                              Append(wins, <<cur_from, d - 1>>))
             ELSE ScanWindows(i + 1, start, n, cal, cd, cur_from, cur_sig, wins)

effective_windows(start, n, cal, cd) ==
    IF n <= 0 THEN << >>
    ELSE ScanWindows(1, start, n, cal, cd, start,
                     sig(active_services_on(start, cal, cd)), << >>)

(***************************************************************************)
(* Ambiguity resolver                                                      *)
(***************************************************************************)
\* calendars.get(svc_id, {}): every field of a missing calendar reads as its default.
EmptyCalendar ==
    [service_id |-> << >>,
     monday |-> "0", tuesday |-> "0", wednesday |-> "0", thursday |-> "0",
     friday |-> "0", saturday |-> "0", sunday |-> "0",
     start_date |-> 0, end_date |-> 0]

\* calendars_dict = {cal["service_id"]: cal for cal in calendar_rows}, then .get
calendars_get(rows, sid) ==
    LET idx == {i \in 1..Len(rows) : rows[i].service_id = sid}
    IN  IF idx = {} THEN EmptyCalendar
        ELSE rows[CHOOSE i \in idx : \A j \in idx : j <= i]

\* The second loop of _active_dates_for_service.
RECURSIVE ApplyOwnExceptions(_, _, _)
ApplyOwnExceptions(active, service_id, exceptions) ==
    IF exceptions = << >> THEN active
    ELSE LET exc == Head(exceptions)
             d   == parse_ymd(exc.date)
             nxt == IF exc.service_id = service_id /\ d # NoDate
                    THEN IF exc.exception_type = "1" THEN active \cup {d}
                         ELSE IF exc.exception_type = "2" THEN active \ {d}
                         ELSE active
                    ELSE active
         IN  ApplyOwnExceptions(nxt, service_id, Tail(exceptions))

active_dates_for_service(service_id, calendar, exceptions) ==
    LET start  == parse_ymd(calendar.start_date)
        end    == parse_ymd(calendar.end_date)
        weekly == IF start # NoDate /\ end # NoDate
                  THEN {cur \in start..end : weekday_mask(calendar)[Weekday(cur) + 1]}
                  ELSE {}
    IN  ApplyOwnExceptions(weekly, service_id, exceptions)

MaxOf(S) == CHOOSE x \in S : \A y \in S : y <= x

\* metrics[svc_id]
Metrics(svc_id, rows, cd, pivot) ==
    LET cal          == calendars_get(rows, svc_id)
        exceptions   == SelectSeq(cd, LAMBDA exc : exc.service_id = svc_id)
        active_dates == active_dates_for_service(svc_id, cal, exceptions)
    IN  [active_dates       |-> active_dates,
         start_date         |-> parse_ymd(cal.start_date),
         last_active_date   |-> IF active_dates # {} THEN MaxOf(active_dates) ELSE NoDate,
         active_after_pivot |-> Cardinality({d \in active_dates : d >= pivot})]

\* max over pairs i < j of len(A & B)
MaxOverlap(svcs, metrics) ==
    LET pairs == {<<i, j>> \in (1..Len(svcs)) \X (1..Len(svcs)) : i < j}
        ovs == {Cardinality(metrics[svcs[p[1]]].active_dates
                            \cap metrics[svcs[p[2]]].active_dates) :
                  p \in pairs}
    IN  IF ovs = {} THEN 0 ELSE MaxOf(ovs \cup {0})

Reason(kind, args) == [kind |-> kind, args |-> args]

Result(winner, reasons, is_ambiguous) ==
    [winner |-> winner, reasons |-> reasons, is_ambiguous |-> is_ambiguous]

\* Mutant of ExceedsThreshold: an overlap equal to the threshold is ambiguous too.
ExceedsThreshold_NotStrict(max_overlap, overlap_max) == max_overlap >= overlap_max

\* if max_overlap > overlap_max_days
ExceedsThreshold(max_overlap, overlap_max) == max_overlap > overlap_max

\* Mutant of FinalTiebreak: always the lexicographically highest id.
FinalTiebreak_AlwaysLexicographic(candidates, reasons) ==
    LET winner == CHOOSE s \in Range(candidates) :
                      \A o \in Range(candidates) \ {s} : StrLess(o, s)
    IN  Result(winner,
               Append(reasons, Reason("Tiebreaker: lexicographically highest service_id", winner)),
               FALSE)

\* The try/except at the end of _choose_service_winner_factual.
FinalTiebreak(candidates, reasons) ==
    IF \A i \in 1..Len(candidates) : IsDigits(candidates[i])
    THEN LET winner == CHOOSE s \in Range(candidates) :
                          \A o \in Range(candidates) \ {s} :
                              \/ IntOf(o) < IntOf(s)
                              \/ IntOf(o) = IntOf(s) /\ StrLess(o, s)
         IN  Result(winner,
                    Append(reasons, Reason("Tiebreaker: highest service_id", winner)),
                    FALSE)
    ELSE LET winner == CHOOSE s \in Range(candidates) :
                          \A o \in Range(candidates) \ {s} : StrLess(o, s)
         IN  Result(winner,
                    Append(reasons, Reason("Tiebreaker: lexicographically highest service_id", winner)),
                    FALSE)

\* Stage 3: latest start_date among the remaining candidates.
StageStartDate(candidates, reasons, metrics) ==
    LET M(s)      == metrics[s]
        starts    == {M(s).start_date : s \in Range(candidates)} \ {NoDate}
        max_start == IF starts # {} THEN MaxOf(starts) ELSE NoDate
        c         == SelectSeq(candidates, LAMBDA s : M(s).start_date = max_start)
    IN  IF max_start = NoDate THEN FinalTiebreak(candidates, reasons)
        ELSE IF Len(c) = 1
        THEN Result(c[1], Append(reasons, Reason("Latest start_date", <<max_start>>)), FALSE)
        ELSE FinalTiebreak(c, Append(reasons, Reason("Tied on start_date", <<max_start>>)))

\* Mutant of StageAfterPivot: the fewest active days after the pivot win.
StageAfterPivot_Fewest(candidates, reasons, metrics) ==
    LET M(s)      == metrics[s]
        min_after == CHOOSE x \in {M(s).active_after_pivot : s \in Range(candidates)} :
                         \A s \in Range(candidates) : x <= M(s).active_after_pivot
        c         == SelectSeq(candidates, LAMBDA s : M(s).active_after_pivot = min_after)
    IN  IF candidates = << >> THEN StageStartDate(candidates, reasons, metrics)
        ELSE IF Len(c) = 1
        THEN Result(c[1], Append(reasons, Reason("Most active days after pivot", <<min_after>>)), FALSE)
        ELSE StageStartDate(c,
                 IF min_after > 0
                 THEN Append(reasons, Reason("Tied on active days after pivot", <<min_after>>))
                 ELSE reasons,
                 metrics)

\* Stage 2: most active days on or after the pivot.
StageAfterPivot(candidates, reasons, metrics) ==
    LET M(s)      == metrics[s]
        max_after == MaxOf({M(s).active_after_pivot : s \in Range(candidates)})
        c         == SelectSeq(candidates, LAMBDA s : M(s).active_after_pivot = max_after)
    IN  IF candidates = << >> THEN StageStartDate(candidates, reasons, metrics)
        ELSE IF Len(c) = 1
        THEN Result(c[1], Append(reasons, Reason("Most active days after pivot", <<max_after>>)), FALSE)
        ELSE StageStartDate(c,
                 IF max_after > 0
                 THEN Append(reasons, Reason("Tied on active days after pivot", <<max_after>>))
                 ELSE reasons,
                 metrics)

\* Mutant of StageLastActive: a tie on last_active_date leaves no reason.
StageLastActive_SilentTie(svcs, reasons, metrics) ==
    LET M(s)       == metrics[s]
        last_dates == {M(s).last_active_date : s \in Range(svcs)} \ {NoDate}
        max_last   == IF last_dates # {} THEN MaxOf(last_dates) ELSE NoDate
        c          == SelectSeq(svcs, LAMBDA s : M(s).last_active_date = max_last)
    IN  IF max_last = NoDate THEN StageAfterPivot(svcs, reasons, metrics)
        ELSE IF Len(c) = 1
        THEN Result(c[1], Append(reasons, Reason("Latest last_active_date", <<max_last>>)), FALSE)
        ELSE StageAfterPivot(c, reasons, metrics)

\* Stage 1: latest last_active_date; the maximum is taken over all metrics.
StageLastActive(svcs, reasons, metrics) ==
    LET M(s)       == metrics[s]
        last_dates == {M(s).last_active_date : s \in Range(svcs)} \ {NoDate}
        max_last   == IF last_dates # {} THEN MaxOf(last_dates) ELSE NoDate
        c          == SelectSeq(svcs, LAMBDA s : M(s).last_active_date = max_last)
    IN  IF max_last = NoDate THEN StageAfterPivot(svcs, reasons, metrics)
        ELSE IF Len(c) = 1
        THEN Result(c[1], Append(reasons, Reason("Latest last_active_date", <<max_last>>)), FALSE)
        ELSE StageAfterPivot(c, Append(reasons, Reason("Tied on last_active_date", <<max_last>>)),
                             metrics)

choose_service_winner_factual(svcs, rows, cd, pivot, overlap_max) ==
    IF Len(svcs) <= 1
    THEN Result(IF svcs # << >> THEN svcs[1] ELSE None,
                <<Reason("Only one service in group", << >>)>>, FALSE)
    ELSE LET metrics     == [s \in Range(svcs) |-> Metrics(s, rows, cd, pivot)]
             max_overlap == MaxOverlap(svcs, metrics)
         IN  IF ExceedsThreshold(max_overlap, overlap_max)
             THEN Result(None,
                         <<Reason("Ambiguous: services overlap", <<max_overlap, overlap_max>>)>>,
                         TRUE)
             ELSE StageLastActive(svcs, << >>, metrics)

(***************************************************************************)
(* Route-aware equivalence grouper                                         *)
(***************************************************************************)
\* `x or default` / `if not x`: None and the empty string are falsy.
Falsy(x) == x = << >> \/ x = None

\* service_routes: service_id -> set of route ids, over the trips with a service_id
service_routes_of(trip_rows) ==
    LET sids == {trip_rows[i].service_id : i \in 1..Len(trip_rows)} \ {<< >>, None}
    IN  [sid \in sids |->
            {IF Falsy(trip_rows[i].route_id) THEN UNKNOWN_ROUTE_ID ELSE trip_rows[i].route_id :
                i \in {j \in 1..Len(trip_rows) : trip_rows[j].service_id = sid}}]

\* tuple(sorted(service_routes.get(service_id) or {UNKNOWN_ROUTE_ID}))
RoutesKey(sr, service_id) ==
    IF service_id \in DOMAIN sr /\ sr[service_id] # {}
    THEN SortedStrs(sr[service_id])
    ELSE <<UNKNOWN_ROUTE_ID>>

\* groups[(mask, routes)].append(service_id); a new key is inserted last.
GroupAppend(groups, mask, routes, service_id) ==
    IF \E i \in 1..Len(groups) : groups[i].mask = mask /\ groups[i].route_ids = routes
    THEN [i \in 1..Len(groups) |->
            IF groups[i].mask = mask /\ groups[i].route_ids = routes
            THEN [groups[i] EXCEPT !.service_ids = Append(@, service_id)]
            ELSE groups[i]]
    ELSE Append(groups, [mask |-> mask, route_ids |-> routes, service_ids |-> <<service_id>>])

\* Mutant of GroupRows: the key is the weekday mask alone.
RECURSIVE GroupRows_MaskOnly(_, _, _)
GroupRows_MaskOnly(groups, rows, sr) ==
    IF rows = << >> THEN groups
    ELSE LET cal == Head(rows)
         IN  IF Falsy(cal.service_id) THEN GroupRows_MaskOnly(groups, Tail(rows), sr)
             ELSE GroupRows_MaskOnly(
                      GroupAppend(groups, weekday_mask(cal), <<UNKNOWN_ROUTE_ID>>, cal.service_id),
                      Tail(rows), sr)

\* The second loop of _build_route_grouping.
RECURSIVE GroupRows(_, _, _)
GroupRows(groups, rows, sr) ==
    IF rows = << >> THEN groups
    ELSE LET cal == Head(rows)
         IN  IF Falsy(cal.service_id) THEN GroupRows(groups, Tail(rows), sr)
             ELSE GroupRows(
                      GroupAppend(groups, weekday_mask(cal),
                                  RoutesKey(sr, cal.service_id), cal.service_id),
                      Tail(rows), sr)

build_route_grouping(rows, trip_rows) ==
    LET sr == service_routes_of(trip_rows)
    IN  [groups |-> GroupRows(<< >>, rows, sr), service_routes |-> sr]

(***************************************************************************)
(* Pruning orchestrator                                                    *)
(***************************************************************************)
\* Python's tuple order on weekday masks: False < True, leftmost difference decides.
RECURSIVE MaskLess(_, _)
MaskLess(a, b) ==
    IF b = << >> THEN FALSE
    ELSE IF a = << >> THEN TRUE
    ELSE IF Head(a) # Head(b) THEN ~Head(a) /\ Head(b)
    ELSE MaskLess(Tail(a), Tail(b))

\* Python's tuple order on tuples of route ids.
RECURSIVE RoutesLess(_, _)
RoutesLess(a, b) ==
    IF b = << >> THEN FALSE
    ELSE IF a = << >> THEN TRUE
    ELSE IF Head(a) # Head(b) THEN StrLess(Head(a), Head(b))
    ELSE RoutesLess(Tail(a), Tail(b))

\* key=lambda item: (item[0][0], item[0][1])
KeyLess(g, h) ==
    \/ MaskLess(g.mask, h.mask)
    \/ g.mask = h.mask /\ RoutesLess(g.route_ids, h.route_ids)

\* Mutant of SortedGroups: the groups are visited in insertion order.
SortedGroups_InsertionOrder(groups) == groups

\* sorted(groups.items(), key=...): group keys are distinct.
RECURSIVE SortedGroups(_)
SortedGroups(groups) ==
    IF groups = << >> THEN << >>
    ELSE LET S == Range(groups)
             m == CHOOSE g \in S : \A h \in S \ {g} : KeyLess(g, h)
         IN  <<m>> \o SortedGroups(SelectSeq(groups, LAMBDA g : g # m))

\* sum(1 for f in mask if f)
ActiveDayCount(mask) == Cardinality({i \in 1..Len(mask) : mask[i]})

\* pivot = max(utcnow().date(), feed_start_date of the first feed_info row)
PivotOf(now, fi) ==
    IF fi # << >>
    THEN LET fs == parse_ymd(fi[1].feed_start_date)
         IN  IF fs # NoDate /\ fs > now THEN fs ELSE now
    ELSE now

GroupRecord(g, winner, reasons, is_ambiguous) ==
    [weekday_mask |-> g.mask, route_ids |-> g.route_ids, service_ids |-> g.service_ids,
     winner |-> winner, reasons |-> reasons, is_ambiguous |-> is_ambiguous]

\* Mutant of IsLimitedDay: only masks of at most one day are exempt.
IsLimitedDay_AtMostOne(active_day_count) == active_day_count <= 1

\* if active_day_count <= 2
IsLimitedDay(active_day_count) == active_day_count <= 2

\* Mutant of KeepAfterWinner: the whole group is kept beside the winner.
KeepAfterWinner_WholeGroup(keep, winner, service_ids) == keep \cup Range(service_ids)

\* services_to_keep.add(winner)
KeepAfterWinner(keep, winner, service_ids) == keep \cup {winner}


\* Lines 293-317: the record of a resolved group and the keep/prune decision;
\* r is what the resolver returned for group g.
ApplyResolution(st, g, r) ==
    LET n   == Len(g.service_ids)
        rec == GroupRecord(g, r.winner, r.reasons, r.is_ambiguous)
    IN  IF r.is_ambiguous \/ Falsy(r.winner)
        THEN [st EXCEPT !.keep = @ \cup Range(g.service_ids),
                        !.overlapping_groups = @ + 1,
                        !.ambiguous_groups = @ + 1,
                        !.kept_services = @ + n,
                        !.groups = Append(@, rec)]
        ELSE [st EXCEPT !.keep = KeepAfterWinner(@, r.winner, g.service_ids),
                        !.prune = @ \cup (Range(g.service_ids) \ {r.winner}),
                        !.overlapping_groups = @ + 1,
                        !.pruned_services = @ + Len(SelectSeq(g.service_ids,
                                                               LAMBDA s : s # r.winner)),
                        !.kept_services = @ + 1,
                        !.groups = Append(@, rec)]

\* One iteration of the loop over the sorted groups; st holds the loop's
\* accumulators (services_to_keep, services_to_prune, diagnostics).
PruneStep(st, g, rows, cd, pivot, overlap_max) ==
    LET n   == Len(g.service_ids)
        ids == Range(g.service_ids)
        adc == ActiveDayCount(g.mask)
    IN  IF n <= 1
        THEN [st EXCEPT !.keep = @ \cup ids, !.kept_services = @ + n]
        ELSE IF IsLimitedDay(adc)
        THEN [st EXCEPT !.keep = @ \cup ids,
                        !.overlapping_groups = @ + 1,
                        !.ambiguous_groups = @ + 1,
                        !.kept_services = @ + n,
                        !.groups = Append(@, GroupRecord(g, None,
                            <<Reason("Weekday mask has active day(s); keeping all services", <<adc>>),
                              Reason("Routes", Join(<<44>>, g.route_ids))>>, TRUE))]
        ELSE ApplyResolution(st, g,
                 choose_service_winner_factual(g.service_ids, rows, cd, pivot, overlap_max))

RECURSIVE PruneLoop(_, _, _, _, _, _)
PruneLoop(st, gs, rows, cd, pivot, overlap_max) ==
    IF gs = << >> THEN st
    ELSE PruneLoop(PruneStep(st, Head(gs), rows, cd, pivot, overlap_max),
                   Tail(gs), rows, cd, pivot, overlap_max)

\* Mutant of KeptTrips: every trip is kept.
KeptTrips_All(trip_rows, keep) == trip_rows

\* trips_f: the trips whose service_id is in services_to_keep
KeptTrips(trip_rows, keep) == SelectSeq(trip_rows, LAMBDA t : t.service_id \in keep)

\* Lines 319-331: the four filters and the returned diagnostics; st is the
\* state the loop ended in.
PruneOutput(st, trips_f, total_groups, rows, cd, st_rows, pivot, overlap_max) ==
    [cal_f        |-> SelectSeq(rows, LAMBDA c : c.service_id \in st.keep),
     cd_f         |-> SelectSeq(cd, LAMBDA d : d.service_id \in st.keep),
     trips_f      |-> trips_f,
     stop_times_f |-> SelectSeq(st_rows, LAMBDA s :
                         s.trip_id \in {trips_f[i].trip_id : i \in 1..Len(trips_f)}),
     diagnostics  |->
        [pivot_date |-> pivot,
         overlap_max_days |-> overlap_max,
         groups |-> st.groups,
         summary |-> [total_groups       |-> total_groups,
                      overlapping_groups |-> st.overlapping_groups,
                      ambiguous_groups   |-> st.ambiguous_groups,
                      pruned_services    |-> st.pruned_services,
                      kept_services      |-> st.kept_services]],
     services_to_keep  |-> st.keep,
     services_to_prune |-> st.prune]

\* Lines 319-331 applied to the loop's final state.
PruneFinish(st, total_groups, rows, cd, trip_rows, st_rows, pivot, overlap_max) ==
    PruneOutput(st, KeptTrips(trip_rows, st.keep), total_groups,
                rows, cd, st_rows, pivot, overlap_max)

\* Lines 242-331 for the groups the grouper returned.
PruneGroups(groups, rows, cd, trip_rows, st_rows, pivot, overlap_max) ==
    PruneFinish(
        PruneLoop([keep |-> {}, prune |-> {}, groups |-> << >>,
                   overlapping_groups |-> 0, ambiguous_groups |-> 0,
                   pruned_services |-> 0, kept_services |-> 0],
                  SortedGroups(groups), rows, cd, pivot, overlap_max),
        Len(groups), rows, cd, trip_rows, st_rows, pivot, overlap_max)

prune_overlaps_factual(rows, cd, trip_rows, st_rows, fi, now, overlap_max) ==
    PruneGroups(build_route_grouping(rows, trip_rows).groups,
                rows, cd, trip_rows, st_rows, PivotOf(now, fi), overlap_max)

(***************************************************************************)
(* Inputs: the parsed feed rows and the caller's parameters                *)
(***************************************************************************)
Id9  == <<57>>

Id10 == <<49, 48>>

IdA  == <<65>>

IdB  == <<66>>

Id7  == <<55>>

WEEKDAYS == <<"1", "1", "1", "1", "1", "0", "0">>

WEEKEND  == <<"0", "0", "0", "0", "0", "1", "1">>

MIDWEEK  == <<"0", "1", "1", "1", "0", "0", "0">>

CalRow(sid, bits, s, e) ==
    [service_id |-> sid,
     monday |-> bits[1], tuesday |-> bits[2], wednesday |-> bits[3],
     thursday |-> bits[4], friday |-> bits[5], saturday |-> bits[6],
     sunday |-> bits[7],
     start_date |-> s, end_date |-> e]

ExcRow(sid, d, t) == [service_id |-> sid, date |-> d, exception_type |-> t]

SeqsUpTo(S, n) == UNION {[1..k -> S] : k \in 0..n}

\* One optional calendar row per service id of ids (a sequence), in that order.
RowsFor(sid, masks, ranges) == {CalRow(sid, b, r[1], r[2]) : b \in masks, r \in ranges}

RECURSIVE CalendarsOver(_, _, _)
CalendarsOver(ids, masks, ranges) ==
    IF ids = << >> THEN {<< >>}
    ELSE LET rest == CalendarsOver(Tail(ids), masks, ranges)
         IN  rest \cup {<<r>> \o c : r \in RowsFor(Head(ids), masks, ranges), c \in rest}

\* 2024-02-26 is a Monday, 2024-02-29 a Thursday, 2024-03-02 a Saturday;
\* 20240230 spells no date.
WinRanges == {<<20240226, 20240229>>, <<20240301, 20240305>>, <<20240226, 20240230>>}

WinExceptions ==
    {ExcRow(Id9, 20240229, "1"), ExcRow(Id9, 20240229, "2"), ExcRow(IdA, 20240302, "1")}

WinStarts == {yyyymmdd_to_date(20240229), yyyymmdd_to_date(20240302)}

InitWindows ==
    /\ calendar_rows \in CalendarsOver(<<Id9, Id10>>, {WEEKDAYS, WEEKEND}, WinRanges)
    /\ calendar_dates \in SeqsUpTo(WinExceptions, MaxExc)
    /\ today \in WinStarts
    /\ window_days \in -1..MaxDays
    /\ trips = << >> /\ stop_times = << >> /\ feed_info = << >>
    /\ overlap_max_days = 0 /\ services = << >>
    /\ pivot_date = NoDate /\ D = NoDate
    /\ pc = "input" /\ ret = << >>

\* wins = _effective_windows(today, window_days, calendar_rows, calendar_dates)
EffectiveWindows ==
    /\ pc = "input"
    /\ pc' = "_effective_windows"
    /\ ret' = effective_windows(today, window_days, calendar_rows, calendar_dates)
    /\ UNCHANGED <<calendar_rows, calendar_dates, trips, stop_times, feed_info,
                   today, window_days, overlap_max_days, services, pivot_date, D>>

\* _active_services_on(D, calendar_rows, calendar_dates) for a day of the scan
ActiveServicesOn ==
    /\ pc = "input"
    /\ \E k \in 0..1 : D' = today + k
    /\ pc' = "_active_services_on"
    /\ ret' = active_services_on(D', calendar_rows, calendar_dates)
    /\ UNCHANGED <<calendar_rows, calendar_dates, trips, stop_times, feed_info,
                   today, window_days, overlap_max_days, services, pivot_date>>

NextWindows == EffectiveWindows \/ ActiveServicesOn

SpecWindows == InitWindows /\ [][NextWindows]_vars

(***************************************************************************)
(* The resolver on its own                                                 *)
(***************************************************************************)
\* Mon 26 Feb - Fri 1 Mar, Wed 28 Feb - Fri 1 Mar, Mon 26 Feb - Wed 28 Feb, and a
\* calendar whose start_date is empty.
ResRanges == {<<20240226, 20240301>>, <<20240228, 20240301>>,
              <<20240226, 20240228>>, <<0, 20240301>>}

ResCalendars ==
    {a \o b : a \in CalendarsOver(<<Id9, Id10>>, {WEEKDAYS}, ResRanges),
              b \in CalendarsOver(<<IdA>>, {WEEKDAYS},
                                  {<<20240226, 20240301>>, <<20240228, 20240301>>})}

ResExceptions ==
    {ExcRow(Id9, 20240304, "1"), ExcRow(Id10, 20240301, "2")}

\* The last group has no calendar row and no exception: no date of any kind.
ResServices == {<<Id9>>, <<Id9, Id10>>, <<Id10, IdA>>, <<IdA, Id9, Id10>>, <<Id7, IdB>>}

InitResolve ==
    /\ calendar_rows \in ResCalendars
    /\ calendar_dates \in SeqsUpTo(ResExceptions, MaxExc)
    /\ services \in ResServices
    /\ pivot_date \in {yyyymmdd_to_date(20240226), yyyymmdd_to_date(20240229)}
    /\ overlap_max_days \in {1, 3, 45}
    /\ trips = << >> /\ stop_times = << >> /\ feed_info = << >>
    /\ today = NoDate /\ window_days = 0 /\ D = NoDate
    /\ pc = "input" /\ ret = << >>

\* _choose_service_winner_factual(services, calendars_dict, calendar_dates, pivot, overlap)
ChooseServiceWinner ==
    /\ pc = "input"
    /\ pc' = "_choose_service_winner_factual"
    /\ ret' = choose_service_winner_factual(services, calendar_rows, calendar_dates,
                                            pivot_date, overlap_max_days)
    /\ UNCHANGED <<calendar_rows, calendar_dates, trips, stop_times, feed_info,
                   today, window_days, overlap_max_days, services, pivot_date, D>>

NextResolve == ChooseServiceWinner

SpecResolve == InitResolve /\ [][NextResolve]_vars

(***************************************************************************)
(* The pruning run                                                         *)
(***************************************************************************)
R1 == <<82, 49>>

T9 == <<84, 57>>

\* Mon 26 Feb - Sun 3 Mar and Mon 4 Mar - Sun 10 Mar
PruneRanges == {<<20240226, 20240303>>, <<20240304, 20240310>>}

PruneCalendars ==
    {a \o b \o c :
        a \in CalendarsOver(<<Id9, Id10>>, {WEEKDAYS, WEEKEND}, PruneRanges),
        b \in CalendarsOver(<<IdA>>, {WEEKDAYS, WEEKEND}, {<<20240226, 20240303>>}),
        c \in CalendarsOver(<<Id7>>, {WEEKEND}, {<<20240226, 20240303>>})}

\* A trip of service 9 or 10 on route R1, of service 9 with no route_id, and of
\* a service B that has no calendar.
TripKinds == {<<Id9, R1>>, <<Id9, << >> >>, <<Id10, R1>>, <<IdB, R1>>}

\* trips.txt: the k-th trip has trip_id "T<k>".
TripRows(kinds) ==
    [k \in 1..Len(kinds) |->
        [trip_id |-> <<84, 48 + k>>, service_id |-> kinds[k][1], route_id |-> kinds[k][2]]]

StopTime(tid) == [trip_id |-> tid]

\* stop_times.txt: stops of trips T1 and T2 and of a trip T9 that trips.txt lacks.
StopTimeRows ==
    <<StopTime(<<84, 49>>), StopTime(<<84, 50>>), StopTime(T9), StopTime(<<84, 50>>)>>

PruneExceptionChoices ==
    {<< >>,
     <<ExcRow(IdB, 20240305, "1"), ExcRow(Id9, 20240301, "2"), ExcRow(Id10, 20240305, "1")>>}

FeedInfoChoices == {<< >>, <<[feed_start_date |-> 20240301]>>}

Init ==
    /\ calendar_rows \in PruneCalendars
    /\ calendar_dates \in PruneExceptionChoices
    /\ trips \in {TripRows(k) : k \in SeqsUpTo(TripKinds, MaxTrips)}
    /\ stop_times = StopTimeRows
    /\ feed_info \in FeedInfoChoices
    /\ today = yyyymmdd_to_date(20240226)
    /\ overlap_max_days \in {0, 45}
    /\ window_days = 0 /\ services = << >> /\ pivot_date = NoDate /\ D = NoDate
    /\ pc = "input" /\ ret = << >>

\* groups, _ = _build_route_grouping(calendar_rows, trips)
BuildRouteGrouping ==
    /\ pc = "input"
    /\ pc' = "_build_route_grouping"
    /\ ret' = build_route_grouping(calendar_rows, trips)
    /\ UNCHANGED <<calendar_rows, calendar_dates, trips, stop_times, feed_info,
                   today, window_days, overlap_max_days, services, pivot_date, D>>

\* _prune_overlaps_factual(...), with the pivot it derives
PruneOverlapsFactual ==
    /\ pc = "input"
    /\ pc' = "_prune_overlaps_factual"
    /\ pivot_date' = PivotOf(today, feed_info)
    /\ ret' = prune_overlaps_factual(calendar_rows, calendar_dates, trips, stop_times,
                                     feed_info, today, overlap_max_days)
    /\ UNCHANGED <<calendar_rows, calendar_dates, trips, stop_times, feed_info,
                   today, window_days, overlap_max_days, services, D>>

Next == BuildRouteGrouping \/ PruneOverlapsFactual

Spec == Init /\ [][Next]_vars

(***************************************************************************)
(* Properties of the window scanner and of calendar activation             *)
(***************************************************************************)
Last(s) == s[Len(s)]

SigOn(d) == sig(active_services_on(d, calendar_rows, calendar_dates))

\* C1: for window_days = N > 0 the returned windows are in chronological order,
\* the first starts at the start date, the last ends at start + N, every window
\* has from <= to, and each window starts the day after the previous one ends;
\* for N <= 0 the list is empty.
C1_WindowTiling ==
    pc = "_effective_windows" =>
        IF window_days <= 0 THEN ret = << >>
        ELSE /\ Len(ret) >= 1
             /\ ret[1][1] = today
             /\ Last(ret)[2] = today + window_days
             /\ \A i \in 1..Len(ret) : ret[i][1] <= ret[i][2]
             /\ \A i \in 1..(Len(ret) - 1) : ret[i + 1][1] = ret[i][2] + 1

C1_Witness ==
    /\ pc = "_effective_windows" /\ window_days > 0
    /\ Len(ret) >= 3
    /\ \E i \in 1..Len(ret) : ret[i][1] < ret[i][2]

\* C2: the windows are maximal constant runs of the active-service signature:
\* every day of a window has the signature of the window's first day, the last
\* day of a window and the first day of the next differ in signature, and a
\* horizon of constant signature yields the single window (start, start + N).
C2_MaximalRuns ==
    (pc = "_effective_windows" /\ window_days > 0) =>
        /\ \A i \in 1..Len(ret) :
              \A d \in ret[i][1]..ret[i][2] : SigOn(d) = SigOn(ret[i][1])
        /\ \A i \in 1..(Len(ret) - 1) : SigOn(ret[i][2]) # SigOn(ret[i + 1][1])
        /\ (\A d \in today..(today + window_days) : SigOn(d) = SigOn(today))
               => ret = << <<today, today + window_days>> >>

C2_Witness ==
    /\ pc = "_effective_windows" /\ window_days > 0
    /\ Len(ret) = 2
    /\ ret[1][1] < ret[1][2]
    /\ active_services_on(ret[1][1], calendar_rows, calendar_dates) # {}
    /\ active_services_on(ret[2][1], calendar_rows, calendar_dates) # {}

\* Monday-first weekday index of a day, counted from Monday 2024-02-26.
MondayFirstIndex(d) == (d - Ymd2Ord(2024, 2, 26)) % 7

WeeklyActive(sid, d) ==
    \E i \in 1..Len(calendar_rows) :
        LET row == calendar_rows[i]
            s   == yyyymmdd_to_date(row.start_date)
            e   == yyyymmdd_to_date(row.end_date)
        IN  /\ row.service_id = sid
            /\ s # NoDate /\ e # NoDate /\ s <= d /\ d <= e
            /\ <<row.monday, row.tuesday, row.wednesday, row.thursday,
                 row.friday, row.saturday, row.sunday>>[MondayFirstIndex(d) + 1] = "1"

ExceptionsFor(sid, d) ==
    {i \in 1..Len(calendar_dates) :
        /\ calendar_dates[i].service_id = sid
        /\ yyyymmdd_to_date(calendar_dates[i].date) = d}

SetMax(S) == CHOOSE x \in S : \A y \in S : y <= x

MentionedIds ==
    {calendar_rows[i].service_id : i \in 1..Len(calendar_rows)}
        \cup {calendar_dates[i].service_id : i \in 1..Len(calendar_dates)}

\* C8: the result for D is the weekly activation (both dates present, start <=
\* D <= end, Monday-first weekday bit set) overlaid with the exceptions dated D
\* in input order, the last one deciding per service; exceptions dated another
\* day do not change the result for D.
C8_ActivationOverlay ==
    pc = "_active_services_on" =>
        /\ ret \subseteq MentionedIds
        /\ \A sid \in MentionedIds :
              sid \in ret <=>
                 IF ExceptionsFor(sid, D) # {}
                 THEN calendar_dates[SetMax(ExceptionsFor(sid, D))].exception_type = "1"
                 ELSE WeeklyActive(sid, D)
        /\ ret = active_services_on(D, calendar_rows,
                     SelectSeq(calendar_dates, LAMBDA x : yyyymmdd_to_date(x.date) = D))

C8_Witness ==
    /\ pc = "_active_services_on"
    /\ \E i, j \in 1..Len(calendar_dates) :
          /\ i < j
          /\ calendar_dates[i].service_id = calendar_dates[j].service_id
          /\ yyyymmdd_to_date(calendar_dates[i].date) = D
          /\ yyyymmdd_to_date(calendar_dates[j].date) = D
          /\ calendar_dates[i].exception_type = "2"
          /\ calendar_dates[j].exception_type = "1"
          /\ WeeklyActive(calendar_dates[i].service_id, D)
    /\ \E sid \in MentionedIds : WeeklyActive(sid, D) /\ ExceptionsFor(sid, D) = {}
    /\ Cardinality(ret) = 2

(***************************************************************************)
(* Properties of the resolver                                              *)
(***************************************************************************)
\* The days any date field of the inputs can name, with a margin.
AllDays == {Ymd2Ord(2024, 2, 24) + k : k \in 0..12}

\* A service's active dates, stated per day: the last of its exceptions on that
\* day decides, and the weekly pattern of its calendar otherwise.
ActiveDatesOf(sid) ==
    {d \in AllDays :
        IF ExceptionsFor(sid, d) # {}
        THEN calendar_dates[SetMax(ExceptionsFor(sid, d))].exception_type = "1"
        ELSE WeeklyActive(sid, d)}

\* The criteria of every input service: active dates, last active date, active
\* days on or after the pivot, start date; an absent date is 0, below every date.
Facts ==
    [s \in Range(services) |->
        LET ad  == ActiveDatesOf(s)
            idx == {i \in 1..Len(calendar_rows) : calendar_rows[i].service_id = s}
        IN  [active |-> ad,
             last   |-> IF ad = {} THEN 0 ELSE SetMax(ad),
             after  |-> Cardinality({d \in ad : d >= pivot_date}),
             start  |-> IF idx = {} THEN 0
                        ELSE yyyymmdd_to_date(calendar_rows[SetMax(idx)].start_date)]]

MaxPairOverlap ==
    LET F == Facts
    IN  SetMax({Cardinality(F[services[p[1]]].active \cap F[services[p[2]]].active) :
                   p \in {q \in (1..Len(services)) \X (1..Len(services)) : q[1] < q[2]}})

\* C6: with at least 2 services the result is ambiguous with no winner exactly
\* when the largest pairwise count of shared active dates is strictly greater
\* than overlap_max_days; otherwise it is not ambiguous and the winner is one of
\* the input services.
C6_AmbiguousIffOverlap ==
    (pc = "_choose_service_winner_factual" /\ Len(services) >= 2) =>
        IF MaxPairOverlap > overlap_max_days
        THEN ret.is_ambiguous /\ ret.winner = None
        ELSE ~ret.is_ambiguous /\ ret.winner \in Range(services)

C6_Witness ==
    /\ pc = "_choose_service_winner_factual" /\ Len(services) >= 2
    /\ MaxPairOverlap = overlap_max_days
    /\ ~ret.is_ambiguous
    /\ ret.winner \in Range(services)

\* a is strictly below b under criteria (1)-(3), compared in that order.
CriteriaLess(F, a, b) ==
    \/ F[a].last < F[b].last
    \/ /\ F[a].last = F[b].last
       /\ \/ F[a].after < F[b].after
          \/ /\ F[a].after = F[b].after
             /\ F[a].start < F[b].start

\* The candidates no other candidate beats on criteria (1)-(3).
TopCandidates ==
    LET F == Facts
    IN  {s \in Range(services) : \A o \in Range(services) : ~CriteriaLess(F, s, o)}

\* C7: below the overlap threshold the winner is the greatest candidate under
\* (1) last_active_date, (2) active days on or after the pivot, (3) start_date,
\* (4) service_id, as integers when every remaining id is an integer and as
\* strings otherwise; and when all are tied on last_active_date and one has
\* strictly more active days after the pivot, it wins and the last reason cites
\* that count.
C7_WinnerIsGreatest ==
    (/\ pc = "_choose_service_winner_factual" /\ Len(services) >= 2
     /\ MaxPairOverlap <= overlap_max_days) =>
        LET F   == Facts
            top == TopCandidates
        IN  /\ ret.winner \in top
            /\ \A o \in top \ {ret.winner} :
                  IF \A s \in top : IsDigits(s)
                  THEN IntOf(o) < IntOf(ret.winner)
                  ELSE StrLess(o, ret.winner)
            /\ \A w \in Range(services) :
                  (/\ \A o \in Range(services) : F[o].last = F[w].last
                   /\ \A o \in Range(services) \ {w} : F[o].after < F[w].after)
                  => /\ ret.winner = w
                     /\ Last(ret.reasons) =
                            Reason("Most active days after pivot", <<F[w].after>>)

C7_Witness ==
    /\ pc = "_choose_service_winner_factual" /\ Len(services) = 3
    /\ MaxPairOverlap <= overlap_max_days
    /\ TopCandidates = {Id9, Id10}
    /\ ret.winner = Id10
    /\ Last(ret.reasons).kind = "Tiebreaker: highest service_id"

\* The services that stay after each stage, from the criteria alone: those with
\* the latest last_active_date, of these the ones with the most active days on
\* or after the pivot, of these the ones with the latest start_date.  A stage
\* whose value is absent everywhere keeps every candidate.
AfterStage1 ==
    LET F == Facts
    IN  {s \in Range(services) : \A o \in Range(services) : F[o].last <= F[s].last}

AfterStage2 ==
    LET F == Facts
    IN  {s \in AfterStage1 : \A o \in AfterStage1 : F[o].after <= F[s].after}

AfterStage3 ==
    LET F == Facts
    IN  {s \in AfterStage2 : \A o \in AfterStage2 : F[o].start <= F[s].start}

\* The value each stage compares on: 0 when no candidate has the date.
StageValue(k) ==
    LET F == Facts
    IN  CASE k = 1 -> SetMax({F[s].last : s \in Range(services)})
          [] k = 2 -> SetMax({F[s].after : s \in AfterStage1})
          [] k = 3 -> SetMax({F[s].start : s \in AfterStage2})

\* The first stage that leaves exactly one candidate; 4 is the service_id
\* tie-break, which always decides.
DecidingStage ==
    IF Cardinality(AfterStage1) = 1 THEN 1
    ELSE IF Cardinality(AfterStage2) = 1 THEN 2
    ELSE IF Cardinality(AfterStage3) = 1 THEN 3
    ELSE 4

TiedKind(k) ==
    CASE k = 1 -> "Tied on last_active_date"
      [] k = 2 -> "Tied on active days after pivot"
      [] k = 3 -> "Tied on start_date"

DecidingKind(k) ==
    CASE k = 1 -> "Latest last_active_date"
      [] k = 2 -> "Most active days after pivot"
      [] k = 3 -> "Latest start_date"
      [] k = 4 -> IF \A s \in AfterStage3 : IsDigits(s)
                  THEN "Tiebreaker: highest service_id"
                  ELSE "Tiebreaker: lexicographically highest service_id"

\* The reason of the deciding stage: its criterion and the deciding value, which
\* for the service_id tie-break is the winning id.
DecidingReason(k) ==
    Reason(DecidingKind(k), IF k = 4 THEN ret.winner ELSE <<StageValue(k)>>)

\* The stages before the deciding one that had a value to tie on.
TiedStages(k) == {i \in 1..(k - 1) : StageValue(i) # 0}

RECURSIVE TiedReasons(_, _)
TiedReasons(i, k) ==
    IF i >= k THEN << >>
    ELSE (IF StageValue(i) # 0 THEN <<Reason(TiedKind(i), <<StageValue(i)>>)>> ELSE << >>)
         \o TiedReasons(i + 1, k)

\* C11 as stated: a winner decided at stage k has exactly k reasons, a "Tied
\* on ..." reason of every stage before k in stage order and then the reason of
\* the deciding stage with its value.
C11_Original ==
    (/\ pc = "_choose_service_winner_factual" /\ Len(services) >= 2
     /\ ~ret.is_ambiguous) =>
        LET k == DecidingStage
        IN  /\ Len(ret.reasons) = k
            /\ \A i \in 1..(k - 1) : ret.reasons[i].kind = TiedKind(i)
            /\ Last(ret.reasons) = DecidingReason(k)

\* C11: for a non-ambiguous group of at least 2 services, every stage passed
\* without leaving exactly one candidate appends its "Tied on ..." reason with
\* the tied value before the next stage runs, except a stage with nothing to tie
\* on (no last_active_date at all, a tied after-pivot count of 0, no start_date
\* among the candidates), which appends nothing; the last reason names the
\* deciding criterion and its value.  A winner decided at stage k so has one
\* reason per earlier stage that had a value, in stage order, then the deciding
\* one: at most k reasons.
C11_TiedReasonPerValuedStage ==
    (/\ pc = "_choose_service_winner_factual" /\ Len(services) >= 2
     /\ ~ret.is_ambiguous) =>
        LET k == DecidingStage
        IN  /\ ret.reasons = TiedReasons(1, k) \o <<DecidingReason(k)>>
            /\ Len(ret.reasons) = Cardinality(TiedStages(k)) + 1
            /\ Len(ret.reasons) <= k

\* Tied on last_active_date, then tied on 0 active days after the pivot, which
\* leaves no reason, then tied on start_date and decided by service_id: 3
\* reasons at stage 4.
C11_Witness ==
    /\ pc = "_choose_service_winner_factual" /\ Len(services) >= 2
    /\ ~ret.is_ambiguous
    /\ DecidingStage = 4
    /\ StageValue(1) # 0 /\ StageValue(2) = 0 /\ StageValue(3) # 0
    /\ Len(ret.reasons) = 3
    /\ ret.reasons[1].kind = "Tied on last_active_date"
    /\ ret.reasons[2].kind = "Tied on start_date"
    /\ ret.reasons[3].kind = "Tiebreaker: highest service_id"

(***************************************************************************)
(* Properties of the grouper and of the pruning orchestrator               *)
(***************************************************************************)
IdsOf(rows) == {rows[i].service_id : i \in 1..Len(rows)}

TripIdsOf(rows) == {rows[i].trip_id : i \in 1..Len(rows)}

\* The groups the grouper builds from the inputs.
BuiltGroups == build_route_grouping(calendar_rows, trips).groups

RecordsOf(g) ==
    {i \in 1..Len(ret.diagnostics.groups) :
        /\ ret.diagnostics.groups[i].weekday_mask = g.mask
        /\ ret.diagnostics.groups[i].route_ids = g.route_ids}

\* C3: after pruning every filtered stop_time has the trip_id of a filtered
\* trip, and every filtered trip has the service_id of a filtered calendar.
C3_CascadeIntegrity ==
    pc = "_prune_overlaps_factual" =>
        /\ \A i \in 1..Len(ret.stop_times_f) :
              ret.stop_times_f[i].trip_id \in TripIdsOf(ret.trips_f)
        /\ \A i \in 1..Len(ret.trips_f) :
              ret.trips_f[i].service_id \in IdsOf(ret.cal_f)

C3_Witness ==
    /\ pc = "_prune_overlaps_factual"
    /\ ret.services_to_prune # {}
    /\ Len(ret.trips_f) = 1 /\ Len(trips) = 2
    /\ trips[1].service_id \in ret.services_to_prune
    /\ Len(ret.stop_times_f) = 2

\* C4 as stated: every group of at most 2 active days keeps all its services,
\* none is marked pruned, and it has a diagnostics record with the policy's
\* reasons (no resolver call), winner null and is_ambiguous true.
C4_Original ==
    pc = "_prune_overlaps_factual" =>
        \A g \in Range(BuiltGroups) :
            ActiveDayCount(g.mask) <= 2 =>
                /\ Range(g.service_ids) \subseteq ret.services_to_keep
                /\ Range(g.service_ids) \cap ret.services_to_prune = {}
                /\ \E i \in RecordsOf(g) :
                      LET r == ret.diagnostics.groups[i]
                      IN  /\ r.winner = None /\ r.is_ambiguous
                          /\ r.reasons[1].kind =
                                "Weekday mask has active day(s); keeping all services"

\* C4, amended: every group of at most 2 active days keeps all its services and
\* none is marked pruned; when it has at least 2 services its one diagnostics
\* record carries the policy's reasons (no resolver call), winner null and
\* is_ambiguous true; a single-service group has no diagnostics record.
C4_LowFrequencyExempt ==
    pc = "_prune_overlaps_factual" =>
        \A g \in Range(BuiltGroups) :
            ActiveDayCount(g.mask) <= 2 =>
                /\ Range(g.service_ids) \subseteq ret.services_to_keep
                /\ Range(g.service_ids) \subseteq IdsOf(ret.cal_f)
                /\ Range(g.service_ids) \cap ret.services_to_prune = {}
                /\ IF Len(g.service_ids) >= 2
                   THEN /\ Cardinality(RecordsOf(g)) = 1
                        /\ \A i \in RecordsOf(g) :
                              LET r == ret.diagnostics.groups[i]
                              IN  /\ r.winner = None /\ r.is_ambiguous
                                  /\ Len(r.reasons) = 2
                                  /\ r.reasons[1] =
                                        Reason("Weekday mask has active day(s); keeping all services",
                                               <<ActiveDayCount(g.mask)>>)
                                  /\ r.reasons[2].kind = "Routes"
                   ELSE RecordsOf(g) = {}

\* A weekend-only group of three services with disjoint date ranges among them.
C4_Witness ==
    /\ pc = "_prune_overlaps_factual"
    /\ overlap_max_days = 45
    /\ \E g \in Range(BuiltGroups) :
          /\ ActiveDayCount(g.mask) = 2
          /\ Len(g.service_ids) = 3
          /\ \E i, j \in 1..3 :
                calendars_get(calendar_rows, g.service_ids[i]).start_date
                    # calendars_get(calendar_rows, g.service_ids[j]).start_date
          /\ Range(g.service_ids) \subseteq ret.services_to_keep

\* What the resolver returns for a group, with the pivot the orchestrator derives.
ResolverOn(g) ==
    choose_service_winner_factual(g.service_ids, calendar_rows, calendar_dates,
                                  PivotOf(today, feed_info), overlap_max_days)

Resolved(g) ==
    /\ Len(g.service_ids) >= 2
    /\ ActiveDayCount(g.mask) > 2
    /\ ~ResolverOn(g).is_ambiguous
    /\ ResolverOn(g).winner # None

\* C5: a group of at least 2 services and more than 2 active weekdays for which
\* the resolver names a winner keeps the winner alone in the filtered calendars,
\* and its other services are absent from the filtered calendars, exceptions
\* and trips; every other group has all its services in the filtered calendars.
C5_WinnerOnly ==
    pc = "_prune_overlaps_factual" =>
        \A g \in Range(BuiltGroups) :
            IF Resolved(g)
            THEN LET w == ResolverOn(g).winner
                 IN  /\ w \in Range(g.service_ids)
                     /\ Range(g.service_ids) \cap IdsOf(ret.cal_f) = {w}
                     /\ \A s \in Range(g.service_ids) \ {w} :
                           /\ s \notin IdsOf(ret.cal_f)
                           /\ s \notin IdsOf(ret.cd_f)
                           /\ s \notin IdsOf(ret.trips_f)
            ELSE Range(g.service_ids) \subseteq IdsOf(ret.cal_f)

C5_Witness ==
    /\ pc = "_prune_overlaps_factual"
    /\ \E g \in Range(BuiltGroups) :
          /\ Resolved(g)
          /\ Len(g.service_ids) = 2
          /\ \E s \in Range(g.service_ids) \ {ResolverOn(g).winner} :
                s \in IdsOf(trips) /\ s \in IdsOf(calendar_dates)
    /\ \E g \in Range(BuiltGroups) : ~Resolved(g) /\ Len(g.service_ids) = 2

\* The route ids of a service: those of its trips, a trip without route_id and
\* a service without trips counting as the unknown-route sentinel.
RouteSetOf(sid) ==
    LET own == {i \in 1..Len(trips) : trips[i].service_id = sid}
    IN  IF own = {} THEN {UNKNOWN_ROUTE_ID}
        ELSE {IF trips[i].route_id = << >> THEN UNKNOWN_ROUTE_ID ELSE trips[i].route_id :
                 i \in own}

RawMaskOf(sid) ==
    LET row == calendar_rows[CHOOSE i \in 1..Len(calendar_rows) :
                                 calendar_rows[i].service_id = sid]
    IN  <<row.monday, row.tuesday, row.wednesday, row.thursday, row.friday,
          row.saturday, row.sunday>>

\* The places (group, position) at which a service occurs in the grouper's result.
PlacesOf(sid) ==
    {<<i, k>> \in (1..Len(ret.groups)) \X (1..Len(calendar_rows)) :
        k <= Len(ret.groups[i].service_ids) /\ ret.groups[i].service_ids[k] = sid}

C10_Original ==
    pc = "_prune_overlaps_factual" =>
        LET recs == ret.diagnostics.groups
        IN  /\ Len(recs) = ret.diagnostics.summary.total_groups
            /\ \A g \in Range(BuiltGroups) : Cardinality(RecordsOf(g)) = 1
            /\ \A i, j \in 1..Len(recs) :
                  i < j => KeyLess([mask |-> recs[i].weekday_mask, route_ids |-> recs[i].route_ids],
                                   [mask |-> recs[j].weekday_mask, route_ids |-> recs[j].route_ids])

\* C10, amended: one diagnostics record per group of at least 2 services and
\* none for a single-service group, so the number of records equals
\* summary.overlapping_groups, while summary.total_groups counts every group;
\* the records are in sorted order of the group keys (weekday mask, route ids).
C10_RecordPerCandidateGroup ==
    pc = "_prune_overlaps_factual" =>
        LET recs == ret.diagnostics.groups
        IN  /\ ret.diagnostics.summary.total_groups = Len(BuiltGroups)
            /\ Len(recs) = ret.diagnostics.summary.overlapping_groups
            /\ Len(recs) = Cardinality({g \in Range(BuiltGroups) : Len(g.service_ids) >= 2})
            /\ \A g \in Range(BuiltGroups) :
                  /\ Cardinality(RecordsOf(g)) = IF Len(g.service_ids) >= 2 THEN 1 ELSE 0
                  /\ \A i \in RecordsOf(g) : recs[i].service_ids = g.service_ids
            /\ \A i, j \in 1..Len(recs) :
                  i < j => KeyLess([mask |-> recs[i].weekday_mask, route_ids |-> recs[i].route_ids],
                                   [mask |-> recs[j].weekday_mask, route_ids |-> recs[j].route_ids])

C10_Witness ==
    /\ pc = "_prune_overlaps_factual"
    /\ Len(ret.diagnostics.groups) = 1
    /\ ret.diagnostics.summary.total_groups = 3

\* The rows of a sequence, as a set of positions whose row is among those of out.
RowsPresent(rows, out) == {i \in 1..Len(rows) : rows[i] \in Range(out)}

\* C12: rows are removed only as the consequence of a pruning decision: every
\* input trip and every input exception row whose service_id was not marked
\* pruned, also of a service with no calendar record, is in the filtered
\* output, and every input stop_time of such a trip is in the filtered
\* stop_times.
C12_OnlyPrunedRowsRemoved ==
    pc = "_prune_overlaps_factual" =>
        LET unpruned(sid) == sid \notin ret.services_to_prune
            keptTripIds   == {trips[i].trip_id :
                                 i \in {j \in 1..Len(trips) : unpruned(trips[j].service_id)}}
        IN  /\ \A i \in 1..Len(trips) :
                  unpruned(trips[i].service_id) => i \in RowsPresent(trips, ret.trips_f)
            /\ \A i \in 1..Len(calendar_dates) :
                  unpruned(calendar_dates[i].service_id)
                      => i \in RowsPresent(calendar_dates, ret.cd_f)
            /\ \A i \in 1..Len(stop_times) :
                  stop_times[i].trip_id \in keptTripIds
                      => i \in RowsPresent(stop_times, ret.stop_times_f)

====
